---- MODULE Spec2Model ----
(***************************************************************************)
(* DeskMan endpoint agent (src/agent/deskman_agent.py).                    *)
(*                                                                         *)
(* The model has the backend tables the agent writes (agents, commands,    *)
(* command_results), the main thread of run() (registration, the poll loop *)
(* of poll_commands with _process_command unrolled into its backend calls, *)
(* shutdown), the daemon heartbeat thread, and the external actors         *)
(* (the administrator who creates commands, the interrupt signal).         *)
(* Every backend call may raise; the number of raised calls is bounded.    *)
(*                                                                         *)
(* Five parts of the program have a specification of their own: the        *)
(* routing chain of _process_command over padded command texts (RouteSpec),*)
(* the handlers cd, ls and download against a directory tree (FsSpec),     *)
(* _load_or_create_agent_id over the runs on one machine (IdSpec), the     *)
(* output _cmd_shell builds from a child process (ShellSpec), and the      *)
(* capture handlers against the bucket and table screenshots (MediaSpec).  *)
(***************************************************************************)
EXTENDS Integers, Sequences, FiniteSets, TLC

\* ---------------------------------------------------------------- bounds
MaxCmds == 2
MaxFailures == 2
\* longest run of whitespace before and after a submitted command text
MaxPad == 1
\* longest text a child process leaves on stdout or on stderr
MaxStream == 2
\* seconds of the wall clock at which a capture can be taken
MaxClock == 2

\* ------------------------------------------------- strings as characters
\* Command texts are sequences of one-character strings so that lower(),
\* strip(), startswith() and slicing are computed as Python computes them.
Whitespace == {" ", "\t", "\n"}

UpperChars == <<"A","B","C","D","E","F","G","H","I","J","K","L","M",
                "N","O","P","Q","R","S","T","U","V","W","X","Y","Z">>

LowerChars == <<"a","b","c","d","e","f","g","h","i","j","k","l","m",
                "n","o","p","q","r","s","t","u","v","w","x","y","z">>

LowerChar(ch) ==
    IF \E i \in 1..26 : UpperChars[i] = ch
    THEN LowerChars[CHOOSE i \in 1..26 : UpperChars[i] = ch]
    ELSE ch

\* str.lower()
StrLower(s) == [i \in 1..Len(s) |-> LowerChar(s[i])]

\* index of the first non-whitespace character, Len(s) + 1 when there is none
FirstNonSpace(s) ==
    IF \A i \in 1..Len(s) : s[i] \in Whitespace
    THEN Len(s) + 1
    ELSE CHOOSE i \in 1..Len(s) :
           s[i] \notin Whitespace /\ \A j \in 1..(i - 1) : s[j] \in Whitespace

\* index of the last non-whitespace character, 0 when there is none
LastNonSpace(s) ==
    IF \A i \in 1..Len(s) : s[i] \in Whitespace
    THEN 0
    ELSE CHOOSE i \in 1..Len(s) :
           s[i] \notin Whitespace /\ \A j \in (i + 1)..Len(s) : s[j] \in Whitespace

\* str.strip()
StrStrip(s) == SubSeq(s, FirstNonSpace(s), LastNonSpace(s))

\* str.startswith(prefix)
StartsWith(s, prefix) ==
    /\ Len(s) >= Len(prefix)
    /\ SubSeq(s, 1, Len(prefix)) = prefix

\* s[n:]
SliceFrom(s, n) == SubSeq(s, n + 1, Len(s))

\* ------------------------------------------------------ trigger literals
TRIG_whoami == <<"w","h","o","a","m","i">>
TRIG_hostname == <<"h","o","s","t","n","a","m","e">>
TRIG_osinfo == <<"o","s","i","n","f","o">>
TRIG_sysinfo == <<"s","y","s","i","n","f","o">>
TRIG_netinfo == <<"n","e","t","i","n","f","o">>
TRIG_uptime == <<"u","p","t","i","m","e">>
TRIG_processes == <<"p","r","o","c","e","s","s","e","s">>
TRIG_drives == <<"d","r","i","v","e","s">>
TRIG_ls == <<"l","s">>
TRIG_screenshot == <<"_","_","s","c","r","e","e","n","s","h","o","t">>
TRIG_webcam == <<"_","_","w","e","b","c","a","m">>
TRIG_download == <<"d","o","w","n","l","o","a","d"," ">>
TRIG_shell == <<"s","h","e","l","l"," ">>
TRIG_cd == <<"c","d"," ">>

\* The if/elif chain of _process_command: which handler a command text is
\* routed to and the argument the handler receives, given lower_cmd.
DispatchOn(command_text, lower_cmd) ==
    IF lower_cmd = TRIG_whoami THEN [handler |-> "whoami", arg |-> <<>>]
    ELSE IF lower_cmd = TRIG_hostname THEN [handler |-> "hostname", arg |-> <<>>]
    ELSE IF lower_cmd = TRIG_osinfo THEN [handler |-> "osinfo", arg |-> <<>>]
    ELSE IF lower_cmd = TRIG_sysinfo THEN [handler |-> "sysinfo", arg |-> <<>>]
    ELSE IF lower_cmd = TRIG_netinfo THEN [handler |-> "netinfo", arg |-> <<>>]
    ELSE IF lower_cmd = TRIG_uptime THEN [handler |-> "uptime", arg |-> <<>>]
    ELSE IF lower_cmd = TRIG_processes THEN [handler |-> "processes", arg |-> <<>>]
    ELSE IF lower_cmd = TRIG_drives THEN [handler |-> "drives", arg |-> <<>>]
    ELSE IF StartsWith(lower_cmd, TRIG_ls)
         THEN [handler |-> "ls", arg |-> StrStrip(SliceFrom(command_text, 2))]
    ELSE IF lower_cmd = TRIG_screenshot THEN [handler |-> "screenshot", arg |-> <<>>]
    ELSE IF lower_cmd = TRIG_webcam THEN [handler |-> "webcam", arg |-> <<>>]
    ELSE IF StartsWith(lower_cmd, TRIG_download)
         THEN [handler |-> "download", arg |-> StrStrip(SliceFrom(command_text, 9))]
    ELSE IF StartsWith(lower_cmd, TRIG_shell)
         THEN [handler |-> "shell", arg |-> StrStrip(SliceFrom(command_text, 6))]
    ELSE IF StartsWith(lower_cmd, TRIG_cd)
         THEN [handler |-> "cd", arg |-> StrStrip(SliceFrom(command_text, 3))]
    ELSE [handler |-> "shell", arg |-> command_text]

\* lower_cmd = command_text.lower().strip(), computed once
Dispatch(command_text) ==
    CHOOSE d \in { DispatchOn(command_text, lower_cmd) :
                     lower_cmd \in {StrStrip(StrLower(command_text))} } : TRUE

\* ------------------------------------------------------- command texts
\* The texts an administrator submits in this model.
TXT_cd == <<"c","d"," ","/","x">>
TXT_ls == <<"L","s"," ","/","x">>
TXT_exit == <<"e","x","i","t"," ","3">>

CommandTexts == {TXT_cd, TXT_ls, TXT_exit}

\* --------------------------------------------------- handler outcomes
\* What one invocation of a handler can do, over all environments (file
\* system, camera, optional libraries, backend availability):
\*   raised     the handler let an exception escape to _process_command
\*   output     the returned text (the exception message when raised)
\*   returncode the second component of _cmd_shell's result (0 otherwise)
\*   writes     the backend writes the handler completed, in order
\*   fails      how many backend calls of the handler raised
Ret(out) ==
    [raised |-> FALSE, output |-> out, returncode |-> 0, writes |-> <<>>, fails |-> 0]

RetW(out, w, f) ==
    [raised |-> FALSE, output |-> out, returncode |-> 0, writes |-> w, fails |-> f]

RetShell(out, rc) ==
    [raised |-> FALSE, output |-> out, returncode |-> rc, writes |-> <<>>, fails |-> 0]

Raise(msg) ==
    [raised |-> TRUE, output |-> msg, returncode |-> 0, writes |-> <<>>, fails |-> 0]

\* Return codes of a finished child process.
ReturnCodes == {0, 3}

cmd_cd ==
    { Ret("Changed directory to: "),
      Ret("Failed to change directory: ") }

cmd_ls ==
    { Ret("Not a directory: "),
      Ret("Permission denied: "),
      RetW("Directory: ", <<"file_listings">>, 0),
      RetW("Directory: ", <<>>, 1),
      Raise("[Errno 2] No such file or directory") }

cmd_screenshot ==
    { RetW("Screenshot captured", <<"storage", "screenshots">>, 0),
      Ret("Screenshot requires mss and Pillow packages. Install with: pip install mss Pillow"),
      Ret("Screenshot failed: "),
      RetW("Screenshot failed: ", <<>>, 1),
      RetW("Screenshot failed: ", <<"storage">>, 1) }

cmd_webcam ==
    { Ret("No webcam detected"),
      Ret("Failed to capture webcam frame"),
      RetW("Webcam captured", <<"storage", "screenshots">>, 0),
      Ret("Webcam requires opencv-python. Install with: pip install opencv-python"),
      RetW("Webcam capture failed: ", <<>>, 1),
      RetW("Webcam capture failed: ", <<"storage">>, 1) }

cmd_download ==
    { Ret("File not found: "),
      RetW("File uploaded: ", <<"storage">>, 0),
      RetW("Download failed: ", <<>>, 1) }

\* except subprocess.TimeoutExpired
TimeoutMessage == "Command timed out (60s limit)"

\* Mutant of cmd_shell: a timeout is reported with exit code 0.
cmd_shell_TimeoutSucceeds ==
    { RetShell("stdout", rc) : rc \in ReturnCodes }
    \cup { RetShell(TimeoutMessage, 0),
           RetShell("Shell error: ", 1) }

cmd_shell ==
    { RetShell("stdout", rc) : rc \in ReturnCodes }
    \cup { RetShell(TimeoutMessage, 1),
           RetShell("Shell error: ", 1) }

cmd_netinfo ==
    { Ret("ip addr"), Ret("Could not retrieve network info"),
      Ret("Error getting network info: ") }

\* _cmd_uptime, _cmd_processes and _cmd_drives catch ImportError only: an
\* error of psutil or of the fallback subprocess escapes the handler.
cmd_uptime ==
    { Ret("System uptime: "), Ret("Unknown"),
      Ret("psutil not installed - cannot determine uptime"),
      Raise("[Errno 2] No such file or directory: 'uptime'") }

cmd_processes ==
    { Ret("PID      CPU%   MEM%   NAME"), Ret("psutil not installed"),
      Raise("[Errno 2] No such file or directory: 'ps'") }

cmd_drives ==
    { Ret("DEVICE          MOUNT        FSTYPE    TOTAL     FREE"),
      Ret("Cannot list drives"), Ret("psutil not installed"),
      Raise("[Errno 2] No such file or directory: 'df'") }

get_system_info ==
    { Ret("{hostname, username, os}"), Raise("psutil.Error") }

HandlerOutcomes(handler) ==
    CASE handler = "whoami" -> { Ret("username") }
      [] handler = "hostname" -> { Ret("hostname") }
      [] handler = "osinfo" -> { Ret("system release machine") }
      [] handler = "sysinfo" -> get_system_info
      [] handler = "netinfo" -> cmd_netinfo
      [] handler = "uptime" -> cmd_uptime
      [] handler = "processes" -> cmd_processes
      [] handler = "drives" -> cmd_drives
      [] handler = "ls" -> cmd_ls
      [] handler = "screenshot" -> cmd_screenshot
      [] handler = "webcam" -> cmd_webcam
      [] handler = "download" -> cmd_download
      [] handler = "shell" -> cmd_shell
      [] handler = "cd" -> cmd_cd

\* Mutant of TerminalStatus: the comparison is inverted.
TerminalStatusInverted(code) == IF code # 0 THEN "completed" ELSE "failed"

\* "completed" if exit_code == 0 else "failed"
TerminalStatus(code) == IF code = 0 THEN "completed" ELSE "failed"

Terminal == {"completed", "failed"}

\* ------------------------------------------------------------- state
VARIABLES
    agents,            \* status of this agent's row in table agents
    commands,          \* table commands: id -> [command, status], by created_at
    command_results,   \* table command_results, in insertion order
    running,           \* self.running
    registered,        \* outcome of register(): "no", "ok", "failed"
    mainPc,            \* position of the main thread (run, poll_commands)
    batch,             \* result.data not yet iterated in the current tick
    cur,               \* command_id of the command being processed
    output,            \* local output of _process_command
    exit_code,         \* local exit_code of _process_command
    thrown,            \* message of the exception the handler raised, or "none"
    hbPc,              \* position of the heartbeat thread
    interrupted,       \* KeyboardInterrupt has been delivered
    offlineWritten,    \* shutdown's status=offline update succeeded
    execCount,         \* id -> number of times the command's handler ran
    lastPollWrite,     \* last backend write completed by this _process_command
    tickFault,         \* latest failure since the last successful query, or "none"
    polled,            \* a pending-commands query has been issued
    hbSent,            \* a heartbeat update has been attempted
    failures           \* backend calls that raised so far

\* State of the parts of the program that are specified on their own below:
\* command routing (RouteSpec), the handlers that use the file system
\* (FsSpec), the identity of the agent over restarts (IdSpec), the shell
\* handler (ShellSpec) and the capture handlers (MediaSpec). Spec leaves
\* these variables at their initial values: it covers the handlers by their
\* outcomes only.
VARIABLES
    routeText,         \* command_text handed to the routing chain, or NoText
    routed,            \* handler and argument the chain selected, or NotRouted
    cwd,               \* os.getcwd() of the agent process
    file_listings,     \* table file_listings of this agent: path -> snapshot
    uploads,           \* storage paths of the blobs uploaded to the bucket
    fsLast,            \* the handler call or heartbeat that was last made
    idFile,            \* content of ~/.deskman_agent_id, or NoFile
    machine_id,        \* content of /etc/machine-id, or Unreadable
    mac,               \* hardware address of the primary NIC, or NoMac
    hostname,          \* platform.node()
    agent_id,          \* self.agent_id of the latest run, or NoId
    firstId,           \* the agent_id the first run on this machine was given
    sourcesChanged,    \* a fingerprint source changed since the latest run
    completed,         \* how subprocess.run ended in the latest _cmd_shell
    shellResult,       \* the (output, exit_code) the latest _cmd_shell returned
    screenshots,       \* table screenshots: the metadata records
    mediaLast          \* the capture handler call that was last made

routeVars == <<routeText, routed>>

fsVars == <<cwd, file_listings, uploads, fsLast>>

idVars ==
    <<idFile, machine_id, mac, hostname, agent_id, firstId, sourcesChanged>>

shellVars == <<completed, shellResult>>

mediaVars == <<screenshots, mediaLast>>

auxVars == <<routeVars, fsVars, idVars, shellVars, mediaVars>>

agentVars ==
    <<agents, commands, command_results, running, registered, mainPc, batch,
      cur, output, exit_code, thrown, hbPc, interrupted, offlineWritten,
      execCount, lastPollWrite, tickFault, polled, hbSent, failures>>

vars ==
    <<agents, commands, command_results, running, registered, mainPc, batch,
      cur, output, exit_code, thrown, hbPc, interrupted, offlineWritten,
      execCount, lastPollWrite, tickFault, polled, hbSent, failures,
      routeText, routed, cwd, file_listings, uploads, fsLast,
      idFile, machine_id, mac, hostname, agent_id, firstId, sourcesChanged,
      completed, shellResult, screenshots, mediaLast>>

NoText == <<"(none)">>

NotRouted == [handler |-> "none", arg |-> <<>>]

NoCall == [handler |-> "none", arg |-> <<>>, path |-> <<>>, output |-> "",
           wrote |-> "none"]

NoFile == <<"(absent)">>

Unreadable == <<"(unreadable)">>

NoMac == <<"(no mac)">>

NoId == <<"(none)">>

RouteInit ==
    /\ routeText = NoText
    /\ routed = NotRouted

FsInit ==
    /\ cwd = <<"/">>
    /\ file_listings = <<>>
    /\ uploads = {}
    /\ fsLast = NoCall

IdInit ==
    /\ idFile = NoFile
    /\ machine_id = <<"m">>
    /\ mac = <<"1">>
    /\ hostname = <<"h">>
    /\ agent_id = NoId
    /\ firstId = NoId
    /\ sourcesChanged = FALSE

NotRun == [kind |-> "none", stdout |-> <<>>, stderr |-> <<>>, returncode |-> 0]

NoResult == [output |-> <<>>, returncode |-> 0]

NoCapture == [handler |-> "none", filename |-> <<>>, output |-> "",
              writes |-> <<>>, failed |-> "none"]

ShellInit ==
    /\ completed = NotRun
    /\ shellResult = NoResult

MediaInit ==
    /\ screenshots = {}
    /\ mediaLast = NoCapture

backendVars == <<agents, commands, command_results>>

mainLocals == <<batch, cur, output, exit_code, thrown>>

NoWrite == [table |-> "none", id |-> 0, status |-> "none"]

Init ==
    /\ agents = "absent"
    /\ commands = <<>>
    /\ command_results = <<>>
    /\ running = TRUE
    /\ registered = "no"
    /\ mainPc = "register"
    /\ batch = <<>>
    /\ cur = 0
    /\ output = ""
    /\ exit_code = 0
    /\ thrown = "none"
    /\ hbPc = "notstarted"
    /\ interrupted = FALSE
    /\ offlineWritten = FALSE
    /\ execCount = <<>>
    /\ lastPollWrite = NoWrite
    /\ tickFault = "none"
    /\ polled = FALSE
    /\ hbSent = FALSE
    /\ failures = 0
    /\ RouteInit
    /\ FsInit
    /\ IdInit
    /\ ShellInit
    /\ MediaInit

\* _process_command returns: its locals are gone.
ReturnFromProcess ==
    /\ cur' = 0
    /\ output' = ""
    /\ exit_code' = 0
    /\ thrown' = "none"
    /\ lastPollWrite' = NoWrite

\* A backend call may raise while the failure budget lasts.
MayFail == failures < MaxFailures

\* ------------------------------------------------- external actors
\* The administrator inserts a Command with status pending; ids follow
\* created_at.
CreateCommand ==
    /\ Len(commands) < MaxCmds
    /\ \E text \in CommandTexts :
         commands' = Append(commands, [command |-> text, status |-> "pending"])
    /\ execCount' = Append(execCount, 0)
    /\ UNCHANGED <<agents, command_results, running, registered, mainPc, batch,
                   cur, output, exit_code, thrown, hbPc, interrupted,
                   offlineWritten, lastPollWrite, tickFault, polled,
                   hbSent, failures>>
    /\ UNCHANGED auxVars

\* Positions of the main thread inside the try block of run().
PollPcs ==
    {"poll_while", "query", "for", "mark_running", "route", "insert_result",
     "update_status", "sleep"}

\* KeyboardInterrupt in the main thread. Inside poll_commands it is not an
\* Exception, so no handler of the loop catches it: run() catches it and
\* calls shutdown(). Before the try block nothing catches it.
Interrupt ==
    /\ ~interrupted
    /\ mainPc \in PollPcs \cup {"register", "start_heartbeat"}
    /\ interrupted' = TRUE
    /\ mainPc' = IF mainPc \in PollPcs THEN "shutdown" ELSE "raised"
    /\ batch' = <<>>
    /\ ReturnFromProcess
    /\ tickFault' = "none"
    /\ UNCHANGED <<backendVars, running, registered, hbPc, offlineWritten,
                   execCount, polled, hbSent, failures>>
    /\ UNCHANGED auxVars

\* --------------------------------------------------------- startup
RegisterOk ==
    /\ agents' = "online"
    /\ registered' = "ok"
    /\ mainPc' = "start_heartbeat"
    /\ UNCHANGED failures

\* Mutant of RegisterFail: the exception is printed and not re-raised.
RegisterFailSwallowed ==
    /\ MayFail
    /\ failures' = failures + 1
    /\ registered' = "failed"
    /\ mainPc' = "start_heartbeat"
    /\ UNCHANGED agents

\* except Exception: print; raise
RegisterFail ==
    /\ MayFail
    /\ failures' = failures + 1
    /\ registered' = "failed"
    /\ mainPc' = "raised"
    /\ UNCHANGED agents

Register ==
    /\ mainPc = "register"
    /\ (RegisterOk \/ RegisterFail)
    /\ UNCHANGED <<commands, command_results, running, mainLocals, hbPc,
                   interrupted, offlineWritten, execCount, lastPollWrite,
                   tickFault, polled, hbSent>>
    /\ UNCHANGED auxVars

\* heartbeat_thread.start()
StartHeartbeat ==
    /\ mainPc = "start_heartbeat"
    /\ hbPc' = "while"
    /\ mainPc' = "poll_while"
    /\ UNCHANGED <<backendVars, running, registered, mainLocals, interrupted,
                   offlineWritten, execCount, lastPollWrite, tickFault,
                   polled, hbSent, failures>>
    /\ UNCHANGED auxVars

\* ------------------------------------------------------ poll loop
\* while self.running:
PollWhile ==
    /\ mainPc = "poll_while"
    /\ mainPc' = IF running THEN "query" ELSE "exit"
    /\ UNCHANGED <<backendVars, running, registered, mainLocals, hbPc,
                   interrupted, offlineWritten, execCount, lastPollWrite,
                   tickFault, polled, hbSent, failures>>
    /\ UNCHANGED auxVars

\* Mutant of PendingCommands: the status filter is missing.
PendingCommandsUnfiltered == [i \in 1..Len(commands) |-> i]

\* Mutant of PendingCommands: the newest command comes first.
PendingCommandsNewestFirst ==
    SelectSeq([i \in 1..Len(commands) |-> Len(commands) + 1 - i],
              LAMBDA i : commands[i].status = "pending")

\* select * from commands where status = 'pending' order by created_at
PendingCommands ==
    SelectSeq([i \in 1..Len(commands) |-> i],
              LAMBDA i : commands[i].status = "pending")

QueryOk ==
    /\ batch' = PendingCommands
    /\ mainPc' = "for"
    /\ tickFault' = "none"
    /\ UNCHANGED failures

\* Mutant of QueryFail: poll_commands has no try/except around the query.
QueryFailPropagates ==
    /\ MayFail
    /\ failures' = failures + 1
    /\ tickFault' = "query"
    /\ mainPc' = "raised"
    /\ UNCHANGED batch

\* the query raises: except Exception in poll_commands, then sleep
QueryFail ==
    /\ MayFail
    /\ failures' = failures + 1
    /\ tickFault' = "query"
    /\ mainPc' = "sleep"
    /\ UNCHANGED batch

PollQuery ==
    /\ mainPc = "query"
    /\ polled' = TRUE
    /\ (QueryOk \/ QueryFail)
    /\ UNCHANGED <<backendVars, running, registered, cur, output, exit_code,
                   thrown, hbPc, interrupted, offlineWritten, execCount,
                   lastPollWrite, hbSent>>
    /\ UNCHANGED auxVars

\* for cmd in result.data or []: self._process_command(cmd)
ForNext ==
    /\ mainPc = "for"
    /\ IF batch = <<>>
       THEN /\ mainPc' = "sleep"
            /\ UNCHANGED <<batch, cur>>
       ELSE /\ cur' = Head(batch)
            /\ batch' = Tail(batch)
            /\ mainPc' = "mark_running"
    /\ UNCHANGED <<backendVars, running, registered, output, exit_code, thrown,
                   hbPc, interrupted, offlineWritten, execCount, lastPollWrite,
                   tickFault, polled, hbSent, failures>>
    /\ UNCHANGED auxVars

SetStatus(id, st) == [commands EXCEPT ![id].status = st]

\* Mutant of MarkRunningOk: the poll loop also marks the agent busy.
MarkRunningOkWritesAgent ==
    /\ commands' = SetStatus(cur, "running")
    /\ agents' = "busy"
    /\ lastPollWrite' = [table |-> "agents", id |-> cur, status |-> "busy"]
    /\ UNCHANGED failures

MarkRunningOk ==
    /\ commands' = SetStatus(cur, "running")
    /\ lastPollWrite' = [table |-> "commands", id |-> cur, status |-> "running"]
    /\ UNCHANGED <<agents, failures>>

\* except Exception: pass
MarkRunningFail ==
    /\ MayFail
    /\ failures' = failures + 1
    /\ UNCHANGED <<agents, commands, lastPollWrite>>

MarkRunning ==
    /\ mainPc = "mark_running"
    /\ (MarkRunningOk \/ MarkRunningFail)
    /\ mainPc' = "route"
    /\ UNCHANGED <<command_results, running, registered, mainLocals,
                   hbPc, interrupted, offlineWritten, execCount, tickFault,
                   polled, hbSent>>
    /\ UNCHANGED auxVars

\* The values of (output, exit_code) after the routing try/except, for an
\* outcome o of the handler chosen by Dispatch.
RoutedOutput(handler, o) ==
    IF o.raised THEN "Error: " \o o.output ELSE o.output

RoutedExitCode(handler, o) ==
    IF o.raised THEN 1
    ELSE IF handler = "shell" THEN o.returncode
    ELSE 0

\* the handler the command being processed is routed to
CurHandler == Dispatch(commands[cur].command).handler

RouteHandler ==
    /\ mainPc = "route"
    /\ \E handler \in {CurHandler} : \E o \in HandlerOutcomes(handler) :
         /\ failures + o.fails <= MaxFailures
         /\ failures' = failures + o.fails
         /\ output' = RoutedOutput(handler, o)
         /\ exit_code' = RoutedExitCode(handler, o)
         /\ thrown' = IF o.raised THEN o.output ELSE "none"
         /\ tickFault' = IF o.raised THEN "handler" ELSE tickFault
         /\ lastPollWrite' =
              IF o.writes = <<>> THEN lastPollWrite
              ELSE [table |-> o.writes[Len(o.writes)], id |-> cur, status |-> "none"]
    /\ execCount' = [execCount EXCEPT ![cur] = @ + 1]
    /\ mainPc' = "insert_result"
    /\ UNCHANGED <<backendVars, running, registered, batch, cur, hbPc,
                   interrupted, offlineWritten, polled, hbSent>>
    /\ UNCHANGED auxVars

InsertResultOk ==
    /\ command_results' =
         Append(command_results,
                [command_id |-> cur, output |-> output, exit_code |-> exit_code])
    /\ lastPollWrite' = [table |-> "command_results", id |-> cur, status |-> "none"]
    /\ mainPc' = "update_status"
    /\ UNCHANGED <<failures, tickFault, cur, output, exit_code, thrown>>

\* Mutant of InsertResultFail: the insert has a try/except of its own and
\* the status update follows it.
InsertResultFailSwallowed ==
    /\ MayFail
    /\ failures' = failures + 1
    /\ tickFault' = "report"
    /\ mainPc' = "update_status"
    /\ UNCHANGED <<command_results, lastPollWrite, cur, output, exit_code, thrown>>

\* the insert raises: the status update is skipped, the error is printed
InsertResultFail ==
    /\ MayFail
    /\ failures' = failures + 1
    /\ tickFault' = "report"
    /\ mainPc' = "for"
    /\ ReturnFromProcess
    /\ UNCHANGED command_results

InsertResult ==
    /\ mainPc = "insert_result"
    /\ (InsertResultOk \/ InsertResultFail)
    /\ UNCHANGED <<agents, commands, running, registered, batch, hbPc,
                   interrupted, offlineWritten, execCount, polled, hbSent>>
    /\ UNCHANGED auxVars

UpdateStatusOk ==
    /\ commands' = SetStatus(cur, TerminalStatus(exit_code))
    /\ UNCHANGED <<failures, tickFault>>

\* Mutant of UpdateStatusFail: the command is put back for a retry.
UpdateStatusFailRequeue ==
    /\ MayFail
    /\ failures' = failures + 1
    /\ tickFault' = "report"
    /\ commands' = SetStatus(cur, "pending")

\* the status update raises: the error is printed
UpdateStatusFail ==
    /\ MayFail
    /\ failures' = failures + 1
    /\ tickFault' = "report"
    /\ UNCHANGED commands

UpdateStatus ==
    /\ mainPc = "update_status"
    /\ (UpdateStatusOk \/ UpdateStatusFail)
    /\ mainPc' = "for"
    /\ ReturnFromProcess
    /\ UNCHANGED <<agents, command_results, running, registered, batch,
                   hbPc, interrupted, offlineWritten, execCount, polled,
                   hbSent>>
    /\ UNCHANGED auxVars

\* time.sleep(COMMAND_POLL_INTERVAL)
PollSleep ==
    /\ mainPc = "sleep"
    /\ mainPc' = "poll_while"
    /\ UNCHANGED <<backendVars, running, registered, mainLocals, hbPc,
                   interrupted, offlineWritten, execCount, lastPollWrite,
                   tickFault, polled, hbSent, failures>>
    /\ UNCHANGED auxVars

\* ------------------------------------------------------- shutdown
\* self.running = False
ShutdownFlag ==
    /\ mainPc = "shutdown"
    /\ running' = FALSE
    /\ mainPc' = "offline_write"
    /\ UNCHANGED <<backendVars, registered, mainLocals, hbPc, interrupted,
                   offlineWritten, execCount, lastPollWrite, tickFault, polled,
                   hbSent, failures>>
    /\ UNCHANGED auxVars

OfflineWriteOk ==
    /\ agents' = IF agents = "absent" THEN agents ELSE "offline"
    /\ offlineWritten' = TRUE
    /\ UNCHANGED failures

\* except Exception: pass
OfflineWriteFail ==
    /\ MayFail
    /\ failures' = failures + 1
    /\ UNCHANGED <<agents, offlineWritten>>

OfflineWrite ==
    /\ mainPc = "offline_write"
    /\ (OfflineWriteOk \/ OfflineWriteFail)
    /\ mainPc' = "exit"
    /\ UNCHANGED <<commands, command_results, running, registered, mainLocals,
                   hbPc, interrupted, execCount, lastPollWrite, tickFault,
                   polled, hbSent>>
    /\ UNCHANGED auxVars

\* run() returns or raises out of main(): the interpreter exits and the
\* daemon heartbeat thread dies with it.
ProcessExit ==
    /\ mainPc \in {"exit", "raised"}
    /\ mainPc' = "terminated"
    /\ hbPc' = IF hbPc = "notstarted" THEN hbPc ELSE "dead"
    /\ UNCHANGED <<backendVars, running, registered, mainLocals, interrupted,
                   offlineWritten, execCount, lastPollWrite, tickFault, polled,
                   hbSent, failures>>
    /\ UNCHANGED auxVars

\* ------------------------------------------------ heartbeat thread
\* while self.running:
HbWhile ==
    /\ hbPc = "while"
    /\ hbPc' = IF running THEN "send" ELSE "returned"
    /\ UNCHANGED <<backendVars, running, registered, mainPc, mainLocals,
                   interrupted, offlineWritten, execCount, lastPollWrite,
                   tickFault, polled, hbSent, failures>>
    /\ UNCHANGED auxVars

HeartbeatOk ==
    /\ agents' = IF agents = "absent" THEN agents ELSE "online"
    /\ hbPc' = "sleep"
    /\ UNCHANGED failures

\* Mutant of HeartbeatFail: send_heartbeat has no try/except, the exception
\* ends the heartbeat thread.
HeartbeatFailRaises ==
    /\ MayFail
    /\ failures' = failures + 1
    /\ hbPc' = "crashed"
    /\ UNCHANGED agents

\* except Exception: print; heartbeat_loop goes on to time.sleep
HeartbeatFail ==
    /\ MayFail
    /\ failures' = failures + 1
    /\ hbPc' = "sleep"
    /\ UNCHANGED agents

\* send_heartbeat()
SendHeartbeat ==
    /\ hbPc = "send"
    /\ hbSent' = TRUE
    /\ (HeartbeatOk \/ HeartbeatFail)
    /\ UNCHANGED <<commands, command_results, running, registered, mainPc,
                   mainLocals, interrupted, offlineWritten, execCount,
                   lastPollWrite, tickFault, polled>>
    /\ UNCHANGED auxVars

\* time.sleep(HEARTBEAT_INTERVAL)
HbSleep ==
    /\ hbPc = "sleep"
    /\ hbPc' = "while"
    /\ UNCHANGED <<backendVars, running, registered, mainPc, mainLocals,
                   interrupted, offlineWritten, execCount, lastPollWrite,
                   tickFault, polled, hbSent, failures>>
    /\ UNCHANGED auxVars

\* ---------------------------------------------------- specification
MainStep ==
    \/ Register \/ StartHeartbeat \/ PollWhile \/ PollQuery \/ ForNext
    \/ MarkRunning \/ RouteHandler \/ InsertResult \/ UpdateStatus
    \/ PollSleep \/ ShutdownFlag \/ OfflineWrite \/ ProcessExit

HeartbeatStep == HbWhile \/ SendHeartbeat \/ HbSleep

Next ==
    \/ CreateCommand
    \/ Interrupt
    \/ Register
    \/ StartHeartbeat
    \/ PollWhile
    \/ PollQuery
    \/ ForNext
    \/ MarkRunning
    \/ RouteHandler
    \/ InsertResult
    \/ UpdateStatus
    \/ PollSleep
    \/ ShutdownFlag
    \/ OfflineWrite
    \/ ProcessExit
    \/ HbWhile
    \/ SendHeartbeat
    \/ HbSleep

Spec == Init /\ [][Next]_vars

TypeOK ==
    /\ agents \in {"absent", "online", "offline"}
    /\ Len(commands) <= MaxCmds
    /\ \A i \in 1..Len(commands) :
         commands[i].status \in {"pending", "running"} \cup Terminal
    /\ running \in BOOLEAN
    /\ failures \in 0..MaxFailures
    /\ hbSent \in BOOLEAN

\* The main thread is always scheduled again: each of its steps, once
\* enabled, is taken (every backend call and subprocess has a timeout).
FairSpec ==
    /\ Spec
    /\ WF_vars(PollWhile)
    /\ WF_vars(PollQuery)
    /\ WF_vars(ForNext)
    /\ WF_vars(MarkRunning)
    /\ WF_vars(RouteHandler)
    /\ WF_vars(InsertResult)
    /\ WF_vars(UpdateStatus)
    /\ WF_vars(PollSleep)

\* The heartbeat thread is always scheduled again.
HbFairSpec ==
    /\ Spec
    /\ WF_vars(HbWhile)
    /\ WF_vars(SendHeartbeat)
    /\ WF_vars(HbSleep)

\* ------------------------------------------------- command routing
\* The routing chain of _process_command on its own: a command text is
\* submitted and the chain selects the handler and its argument.
Pads == UNION { [1..n -> Whitespace] : n \in 0..MaxPad }

RouteWords ==
    { <<"l","s">>, <<"L","s">>, <<"l","s","b","l","k">>, <<"l","s","o","f">>,
      <<"c","d">>, <<"C","D">>, <<"c","d","r","o","m">>,
      <<"d","o","w","n","l","o","a","d">>,
      <<"d","o","w","n","l","o","a","d","s">>,
      <<"s","h","e","l","l">>, <<"s","h","e","l","l","s">>,
      <<"w","h","o","a","m","i">>, <<"W","h","o","A","m","I">>,
      <<"w","h","o","a","m","i","s">>, <<"d","r","i","v","e","s">>,
      <<"_","_","w","e","b","c","a","m">>, <<"e","c","h","o">> }

RouteArgs == { <<>>, <<"-","i">>, <<"/","x">> }

WithArg(word, a) == IF a = <<>> THEN word ELSE word \o <<" ">> \o a

RouteTexts ==
    { before \o WithArg(word, a) \o after :
        before \in Pads, word \in RouteWords, a \in RouteArgs, after \in Pads }

\* command_text = cmd["command"]
RouteSubmit ==
    /\ \E text \in RouteTexts : routeText' = text
    /\ routed' = NotRouted
    /\ UNCHANGED <<agentVars, fsVars, idVars, shellVars, mediaVars>>

\* the if/elif chain selects a handler
RouteDispatch ==
    /\ routeText # NoText
    /\ routed = NotRouted
    /\ routed' = Dispatch(routeText)
    /\ UNCHANGED <<routeText, agentVars, fsVars, idVars, shellVars, mediaVars>>

RouteNext ==
    \/ RouteSubmit
    \/ RouteDispatch

RouteSpec == Init /\ [][RouteNext]_vars

\* ------------------------------------------ handlers and file system
\* The handlers that read or change the local file system (_cmd_cd, _cmd_ls,
\* _cmd_download), run one call after the other as the poll loop runs them,
\* against a small directory tree. Paths are sequences of characters.
Home == <<"/","a">>

Dirs ==
    { <<"/">>, <<"/","a">>, <<"/","b">>, <<"/","a","/","s">>,
      <<"/","b","/","s">>, <<"/","k">> }

\* directories of mode 000: listdir and chdir raise PermissionError
NoAccess == { <<"/","k">> }

Files ==
    { <<"/","f">>, <<"/","a","/","s","/","p">>, <<"/","b","/","s","/","q">> }

IsAbs(p) == Len(p) >= 1 /\ p[1] = "/"

\* os.path.expanduser(path), for "~" and "~/..."
ExpandUser(p) ==
    IF Len(p) >= 1 /\ p[1] = "~" /\ (Len(p) = 1 \/ p[2] = "/")
    THEN Home \o SliceFrom(p, 1)
    ELSE p

\* the file the operating system resolves p to for a process whose working
\* directory is dir
Resolve(dir, p) ==
    IF IsAbs(p) THEN p
    ELSE IF dir = <<"/">> THEN dir \o p
    ELSE dir \o <<"/">> \o p

LastSlash(p) ==
    IF \A i \in 1..Len(p) : p[i] # "/"
    THEN 0
    ELSE CHOOSE i \in 1..Len(p) :
           p[i] = "/" /\ \A j \in (i + 1)..Len(p) : p[j] # "/"

\* os.path.basename(p)
Basename(p) == SliceFrom(p, LastSlash(p))

Parent(p) ==
    IF LastSlash(p) <= 1 THEN <<"/">> ELSE SubSeq(p, 1, LastSlash(p) - 1)

\* os.listdir(d): the names in directory d
Entries(d) ==
    { Basename(x) : x \in { y \in (Dirs \cup Files) \ {<<"/">>} : Parent(y) = d } }

\* The command texts run against the tree.
FsTexts ==
    { <<"c","d"," ","/","a">>, <<"c","d"," ","/","b">>, <<"c","d"," ","/","n">>,
      <<"c","d"," ","s">>, <<"c","d"," ","/","k">>,
      <<"l","s">>, <<"l","s"," ","s">>, <<"l","s"," ","~">>,
      <<"l","s"," ","/","f">>, <<"l","s"," ","/","k">>,
      <<"d","o","w","n","l","o","a","d"," ","/","f">>,
      <<"d","o","w","n","l","o","a","d"," ","/","n">>,
      <<"p","w","d">> }

\* upsert(..., on_conflict="agent_id,path"): one row per path
Upsert(path, row) ==
    [k \in DOMAIN file_listings \cup {path} |->
        IF k = path THEN row ELSE file_listings[k]]

\* What one handler call does: the text it returns, the working directory,
\* table file_listings and the bucket after it, and the backend write made.
FsOutcome(out, dir, listings, blobs, w) ==
    [output |-> out, cwd |-> dir, file_listings |-> listings,
     uploads |-> blobs, wrote |-> w]

\* _cmd_cd(path), target being the directory path resolves to
CdOutcomes(path, target) ==
    IF target \in Dirs \ NoAccess
    THEN { FsOutcome("Changed directory to: ", target, file_listings, uploads, "none") }
    ELSE { FsOutcome("Failed to change directory: ", cwd, file_listings, uploads, "none") }

\* Mutant of LsOutcomes: the handler changes into the directory it lists.
LsOutcomesChdir(path, target) ==
    IF target \notin Dirs
    THEN { FsOutcome("Not a directory: ", cwd, file_listings, uploads, "none") }
    ELSE IF target \in NoAccess
    THEN { FsOutcome("Permission denied: ", cwd, file_listings, uploads, "none") }
    ELSE { FsOutcome("Directory: ", target,
                     Upsert(path, [entries |-> Entries(target), listed |-> target]),
                     uploads, "file_listings"),
           FsOutcome("Directory: ", target, file_listings, uploads, "none") }

\* Mutant of LsOutcomes: the listing row is written before the directory is
\* checked and read.
LsOutcomesUpsertFirst(path, target) ==
    IF target \notin Dirs
    THEN { FsOutcome("Not a directory: ", cwd,
                     Upsert(path, [entries |-> {}, listed |-> target]),
                     uploads, "file_listings") }
    ELSE IF target \in NoAccess
    THEN { FsOutcome("Permission denied: ", cwd,
                     Upsert(path, [entries |-> {}, listed |-> target]),
                     uploads, "file_listings") }
    ELSE { FsOutcome("Directory: ", cwd,
                     Upsert(path, [entries |-> Entries(target), listed |-> target]),
                     uploads, "file_listings"),
           FsOutcome("Directory: ", cwd, file_listings, uploads, "none") }

\* _cmd_ls(path): the row written has the path as the handler was given it;
\* listed records the directory whose entries were read. The upsert may raise,
\* which is printed.
LsOutcomes(path, target) ==
    IF target \notin Dirs
    THEN { FsOutcome("Not a directory: ", cwd, file_listings, uploads, "none") }
    ELSE IF target \in NoAccess
    THEN { FsOutcome("Permission denied: ", cwd, file_listings, uploads, "none") }
    ELSE { FsOutcome("Directory: ", cwd,
                     Upsert(path, [entries |-> Entries(target), listed |-> target]),
                     uploads, "file_listings"),
           FsOutcome("Directory: ", cwd, file_listings, uploads, "none") }

\* storage_path = f"{self.agent_id}/files/{filename}"
StoragePath(filepath) ==
    agent_id \o <<"/","f","i","l","e","s","/">> \o Basename(filepath)

\* _cmd_download(filepath): the upload may raise
DownloadOutcomes(filepath, target) ==
    IF target \notin Files
    THEN { FsOutcome("File not found: ", cwd, file_listings, uploads, "none") }
    ELSE { FsOutcome("File uploaded: ", cwd, file_listings,
                     uploads \cup {StoragePath(filepath)}, "storage"),
           FsOutcome("Download failed: ", cwd, file_listings, uploads, "none") }

\* the handler call leaves outcome o behind
FsApply(d, path, o) ==
    /\ cwd' = o.cwd
    /\ file_listings' = o.file_listings
    /\ uploads' = o.uploads
    /\ fsLast' = [handler |-> d.handler, arg |-> d.arg, path |-> path,
                  output |-> o.output, wrote |-> o.wrote]

\* path = command_text[3:].strip(); output = self._cmd_cd(path)
FsCd ==
    /\ \E text \in FsTexts : \E d \in {Dispatch(text)} :
         /\ d.handler = "cd"
         /\ \E path \in {ExpandUser(d.arg)} :
              \E o \in CdOutcomes(path, Resolve(cwd, path)) : FsApply(d, path, o)
    /\ UNCHANGED <<agentVars, routeVars, idVars, shellVars, mediaVars>>

\* path = command_text[2:].strip() or os.getcwd(); output = self._cmd_ls(path)
FsLs ==
    /\ \E text \in FsTexts : \E d \in {Dispatch(text)} :
         /\ d.handler = "ls"
         /\ \E path \in {ExpandUser(IF d.arg = <<>> THEN cwd ELSE d.arg)} :
              \E o \in LsOutcomes(path, Resolve(cwd, path)) : FsApply(d, path, o)
    /\ UNCHANGED <<agentVars, routeVars, idVars, shellVars, mediaVars>>

\* filepath = command_text[9:].strip(); output = self._cmd_download(filepath)
FsDownload ==
    /\ \E text \in FsTexts : \E d \in {Dispatch(text)} :
         /\ d.handler = "download"
         /\ \E path \in {ExpandUser(d.arg)} :
              \E o \in DownloadOutcomes(path, Resolve(cwd, path)) : FsApply(d, path, o)
    /\ UNCHANGED <<agentVars, routeVars, idVars, shellVars, mediaVars>>

\* every other handler: a shell command runs in a child process, the rest
\* only read; none changes the agent's working directory or these tables
FsOther ==
    /\ \E text \in FsTexts : \E d \in {Dispatch(text)} :
         /\ d.handler \notin {"cd", "ls", "download"}
         /\ FsApply(d, <<>>, FsOutcome("stdout", cwd, file_listings, uploads, "none"))
    /\ UNCHANGED <<agentVars, routeVars, idVars, shellVars, mediaVars>>

\* send_heartbeat() of the heartbeat thread, between two handler calls: it
\* updates the agent's row only
FsHeartbeat ==
    /\ fsLast' = [handler |-> "send_heartbeat", arg |-> <<>>, path |-> <<>>,
                  output |-> "", wrote |-> "agents"]
    /\ UNCHANGED <<cwd, file_listings, uploads>>
    /\ UNCHANGED <<agentVars, routeVars, idVars, shellVars, mediaVars>>

FsNext ==
    \/ FsCd
    \/ FsLs
    \/ FsDownload
    \/ FsOther
    \/ FsHeartbeat

FsSpec == Init /\ [][FsNext]_vars

\* ------------------------------------------------- agent identity
\* _load_or_create_agent_id over the runs of the agent on one machine. Between
\* two runs the machine-id, the network card and the hostname may change.
MachineIds == { <<"m">>, Unreadable }

Macs == { <<"1">>, NoMac }

Hostnames == { <<"h">>, <<"g">> }

\* uuid.getnode(): the hardware address, or a random 48-bit number chosen by
\* the process when no address is found
RandomNodes == { <<"8">>, <<"9">> }

GetNode == IF mac = NoMac THEN RandomNodes ELSE {mac}

\* parts, for the value node returned by uuid.getnode()
Parts(node) ==
    (IF machine_id = Unreadable THEN <<>> ELSE <<StrStrip(machine_id)>>)
        \o <<node, hostname>>

RECURSIVE JoinBar(_)
\* "|".join(parts)
JoinBar(parts) ==
    IF Len(parts) = 0 THEN <<>>
    ELSE IF Len(parts) = 1 THEN parts[1]
    ELSE parts[1] \o <<"|">> \o JoinBar(Tail(parts))

HexDigits == <<"0","1","2","3","4","5","6","7","8","9","a","b","c","d","e","f">>

\* the characters of the fingerprint sources
CodeChars == <<"m","n","1","2","8","9","h","g","|">>

CharCode(ch) == CHOOSE i \in 1..Len(CodeChars) : CodeChars[i] = ch

RECURSIVE Poly(_, _, _, _, _)
\* polynomial hash of raw[i..] continued from acc
Poly(raw, mult, modulus, i, acc) ==
    IF i > Len(raw) THEN acc
    ELSE Poly(raw, mult, modulus, i + 1, (acc * mult + CharCode(raw[i])) % modulus)

\* n < 16^4 as four lower-case hexadecimal digits
Hex4(n) ==
    <<HexDigits[((n \div 4096) % 16) + 1], HexDigits[((n \div 256) % 16) + 1],
      HexDigits[((n \div 16) % 16) + 1], HexDigits[(n % 16) + 1]>>

\* hashlib.sha256(raw.encode()).hexdigest(): a fixed function from strings to
\* strings of lower-case hexadecimal digits. Two polynomial hashes stand for
\* SHA-256, with 16 digits for its 64; they give the raw strings of this
\* model different digests.
hexdigest(raw) ==
    CHOOSE d \in { Hex4(a) \o Hex4(b) \o Hex4((a * 7 + b) % 65536)
                     \o Hex4((a + b * 13) % 65536) :
                   a \in {Poly(raw, 31, 65521, 1, 7)},
                   b \in {Poly(raw, 37, 65519, 1, 7)} } : TRUE

\* _get_machine_fingerprint(): hexdigest()[:12]
Fingerprint(node) == SubSeq(hexdigest(JoinBar(Parts(node))), 1, 12)

UpperChar(ch) ==
    IF \E i \in 1..26 : LowerChars[i] = ch
    THEN UpperChars[CHOOSE i \in 1..26 : LowerChars[i] = ch]
    ELSE ch

\* str.upper()
StrUpper(t) == [i \in 1..Len(t) |-> UpperChar(t[i])]

\* f"AGT-{fingerprint[:8].upper()}"
DerivedId(fingerprint) ==
    <<"A","G","T","-">> \o StrUpper(SubSeq(fingerprint, 1, 8))

\* the machine-id, the network card or the hostname changes between two runs
IdSourcesChange ==
    /\ \E m \in MachineIds : \E c \in Macs : \E h \in Hostnames :
         /\ <<m, c, h>> # <<machine_id, mac, hostname>>
         /\ machine_id' = m
         /\ mac' = c
         /\ hostname' = h
    /\ sourcesChanged' = TRUE
    /\ UNCHANGED <<idFile, agent_id, firstId>>
    /\ UNCHANGED <<agentVars, routeVars, fsVars, shellVars, mediaVars>>

\* the identity is given to the run: self.agent_id = ...
IdAssign(id) ==
    /\ agent_id' = id
    /\ firstId' = IF firstId = NoId THEN id ELSE firstId
    /\ sourcesChanged' = FALSE

\* a run finds the file with a non-empty content: return stored
IdRunStored ==
    /\ idFile # NoFile
    /\ StrStrip(idFile) # <<>>
    /\ IdAssign(StrStrip(idFile))
    /\ UNCHANGED <<idFile, machine_id, mac, hostname>>
    /\ UNCHANGED <<agentVars, routeVars, fsVars, shellVars, mediaVars>>

\* with open(id_path, "w") as f: f.write(agent_id), except OSError: pass.
\* The file has the id; or open raised and the file is as before; or open
\* truncated the file and write raised.
IdFileAfterWrite(id) == { id, idFile, <<>> }

\* a run finds no file or an empty one: derive the id and try to persist it
IdRunDerive ==
    /\ idFile = NoFile \/ StrStrip(idFile) = <<>>
    /\ \E node \in GetNode : \E id \in {DerivedId(Fingerprint(node))} :
         /\ IdAssign(id)
         /\ idFile' \in IdFileAfterWrite(id)
    /\ UNCHANGED <<machine_id, mac, hostname>>
    /\ UNCHANGED <<agentVars, routeVars, fsVars, shellVars, mediaVars>>

IdNext ==
    \/ IdSourcesChange
    \/ IdRunStored
    \/ IdRunDerive

IdSpec == Init /\ [][IdNext]_vars

\* ------------------------------------------------- shell output
\* _cmd_shell on its own: the child process ends, or subprocess.run raises,
\* and the handler builds the (output, exit_code) pair it returns. Texts are
\* sequences of characters; a fixed message is a sequence of one element.
Streams(ch) == UNION { [1..n -> {ch, " ", "\n"}] : n \in 0..MaxStream }

NoOutput == <<"(","n","o"," ","o","u","t","p","u","t",")">>

\* Mutant of ShellOutput: what the child wrote to stderr is dropped.
ShellOutputStdoutOnly(stdout, stderr) ==
    IF StrStrip(stdout) # <<>> THEN StrStrip(stdout) ELSE NoOutput

\* output = result.stdout
\* if result.stderr:
\*     output += "\n" + result.stderr if output else result.stderr
\* return output.strip() or "(no output)"
ShellOutput(stdout, stderr) ==
    LET appended == IF stdout # <<>> THEN <<"\n">> \o stderr ELSE stderr
        text == IF stderr # <<>> THEN stdout \o appended ELSE stdout
    IN IF StrStrip(text) # <<>> THEN StrStrip(text) ELSE NoOutput

\* subprocess.run returned within the 60 seconds
ShellFinished ==
    /\ \E stdout \in Streams("o"), stderr \in Streams("e"), rc \in ReturnCodes :
         /\ completed' = [kind |-> "finished", stdout |-> stdout,
                          stderr |-> stderr, returncode |-> rc]
         /\ shellResult' = [output |-> ShellOutput(stdout, stderr),
                            returncode |-> rc]
    /\ UNCHANGED <<agentVars, routeVars, fsVars, idVars, mediaVars>>

\* except subprocess.TimeoutExpired
ShellTimeout ==
    /\ completed' = [kind |-> "timeout", stdout |-> <<>>, stderr |-> <<>>,
                     returncode |-> 0]
    /\ shellResult' = [output |-> <<TimeoutMessage>>, returncode |-> 1]
    /\ UNCHANGED <<agentVars, routeVars, fsVars, idVars, mediaVars>>

\* except Exception
ShellError ==
    /\ completed' = [kind |-> "error", stdout |-> <<>>, stderr |-> <<>>,
                     returncode |-> 0]
    /\ shellResult' = [output |-> <<"Shell error: ">>, returncode |-> 1]
    /\ UNCHANGED <<agentVars, routeVars, fsVars, idVars, mediaVars>>

ShellNext ==
    \/ ShellFinished
    \/ ShellTimeout
    \/ ShellError

ShellSpec == Init /\ [][ShellNext]_vars

\* ------------------------------------------------- captured media
\* _cmd_screenshot and _cmd_webcam against the bucket and table screenshots.
\* The wall clock gives the second of the capture; the optional libraries,
\* the screen, the camera and the backend may each fail.
MediaTexts == {TRIG_screenshot, TRIG_webcam}

ClockDigits == <<"1","2","3","4","5","6","7","8","9">>

\* datetime.datetime.utcnow().strftime('%Y%m%d_%H%M%S')
Strftime(now) == <<ClockDigits[now]>>

\* filename = f"{self.agent_id}/{...}.png"
ScreenshotFilename(now) ==
    agent_id \o <<"/">> \o Strftime(now) \o <<".png">>

\* filename = f"{self.agent_id}/webcam_{...}.png"
WebcamFilename(now) ==
    agent_id \o <<"/", "webcam_">> \o Strftime(now) \o <<".png">>

\* the row inserted into table screenshots
Metadata(filename) ==
    [agent_id |-> agent_id, storage_path |-> filename, width |-> 2, height |-> 1]

\* what one capture leaves behind: the bucket, the table, the backend writes
\* that completed, in order, and the step that raised
MediaOutcome(out, blobs, rows, w, at) ==
    [output |-> out, uploads |-> blobs, screenshots |-> rows, writes |-> w,
     failed |-> at]

\* Mutant of ScreenshotOutcomes: the metadata row is inserted before the
\* blob is uploaded.
ScreenshotOutcomesInsertFirst(filename) ==
    { MediaOutcome("Screenshot requires mss and Pillow packages. Install with: pip install mss Pillow",
                   uploads, screenshots, <<>>, "import"),
      MediaOutcome("Screenshot failed: ", uploads, screenshots, <<>>, "capture"),
      MediaOutcome("Screenshot failed: ", uploads, screenshots, <<>>, "insert"),
      MediaOutcome("Screenshot failed: ", uploads,
                   screenshots \cup {Metadata(filename)}, <<"screenshots">>, "upload") }
    \cup IF filename \in uploads THEN {}
         ELSE { MediaOutcome("Screenshot captured", uploads \cup {filename},
                             screenshots \cup {Metadata(filename)},
                             <<"screenshots", "storage">>, "none") }

\* _cmd_screenshot(): import, grab, upload to the bucket, insert the row. The
\* bucket rejects an upload to a path that exists (no upsert option is sent).
ScreenshotOutcomes(filename) ==
    { MediaOutcome("Screenshot requires mss and Pillow packages. Install with: pip install mss Pillow",
                   uploads, screenshots, <<>>, "import"),
      MediaOutcome("Screenshot failed: ", uploads, screenshots, <<>>, "capture"),
      MediaOutcome("Screenshot failed: ", uploads, screenshots, <<>>, "upload") }
    \cup IF filename \in uploads THEN {}
         ELSE { MediaOutcome("Screenshot failed: ", uploads \cup {filename},
                             screenshots, <<"storage">>, "insert"),
                MediaOutcome("Screenshot captured", uploads \cup {filename},
                             screenshots \cup {Metadata(filename)},
                             <<"storage", "screenshots">>, "none") }

\* _cmd_webcam(): import, open the camera, read a frame, upload, insert
WebcamOutcomes(filename) ==
    { MediaOutcome("Webcam requires opencv-python. Install with: pip install opencv-python",
                   uploads, screenshots, <<>>, "import"),
      MediaOutcome("No webcam detected", uploads, screenshots, <<>>, "capture"),
      MediaOutcome("Failed to capture webcam frame", uploads, screenshots, <<>>,
                   "capture"),
      MediaOutcome("Webcam capture failed: ", uploads, screenshots, <<>>, "capture"),
      MediaOutcome("Webcam capture failed: ", uploads, screenshots, <<>>, "upload") }
    \cup IF filename \in uploads THEN {}
         ELSE { MediaOutcome("Webcam capture failed: ", uploads \cup {filename},
                             screenshots, <<"storage">>, "insert"),
                MediaOutcome("Webcam captured", uploads \cup {filename},
                             screenshots \cup {Metadata(filename)},
                             <<"storage", "screenshots">>, "none") }

\* the handler call leaves outcome o behind
MediaApply(d, filename, o) ==
    /\ uploads' = o.uploads
    /\ screenshots' = o.screenshots
    /\ mediaLast' = [handler |-> d.handler, filename |-> filename,
                     output |-> o.output, writes |-> o.writes,
                     failed |-> o.failed]

\* output = self._cmd_screenshot()
MediaScreenshot ==
    /\ \E text \in MediaTexts : \E d \in {Dispatch(text)} :
         /\ d.handler = "screenshot"
         /\ \E now \in 1..MaxClock : \E filename \in {ScreenshotFilename(now)} :
              \E o \in ScreenshotOutcomes(filename) : MediaApply(d, filename, o)
    /\ UNCHANGED <<agentVars, routeVars, idVars, shellVars>>
    /\ UNCHANGED <<cwd, file_listings, fsLast>>

\* output = self._cmd_webcam()
MediaWebcam ==
    /\ \E text \in MediaTexts : \E d \in {Dispatch(text)} :
         /\ d.handler = "webcam"
         /\ \E now \in 1..MaxClock : \E filename \in {WebcamFilename(now)} :
              \E o \in WebcamOutcomes(filename) : MediaApply(d, filename, o)
    /\ UNCHANGED <<agentVars, routeVars, idVars, shellVars>>
    /\ UNCHANGED <<cwd, file_listings, fsLast>>

MediaNext ==
    \/ MediaScreenshot
    \/ MediaWebcam

MediaSpec == Init /\ [][MediaNext]_vars

\* ------------------------------------------------------------ claims
Ids == 1..Len(commands)

ResultsOf(c) ==
    {i \in 1..Len(command_results) : command_results[i].command_id = c}

\* this step inserts a CommandResult for command c
ResultInserted(c) ==
    /\ Len(command_results') = Len(command_results) + 1
    /\ command_results'[Len(command_results')].command_id = c

\* this step writes a terminal status on command c
BecomesTerminal(c) ==
    /\ commands[c].status \notin Terminal
    /\ commands'[c].status \in Terminal

\* C1: every Command whose backend status is completed or failed has exactly
\* one CommandResult with its command_id.
C1_ExactlyOneResult ==
    \A c \in Ids :
        commands[c].status \in Terminal => Cardinality(ResultsOf(c)) = 1

\* C2 as stated: the terminal status is written before the CommandResult is
\* inserted, so at the insert the command is already completed or failed.
C2_StatusWrittenBeforeResult ==
    [][\A c \in Ids : ResultInserted(c) => commands[c].status \in Terminal]_vars

\* C2 as amended: the insert into command_results is the poll loop's last
\* backend write before the terminal status write of the same command.
C2_ResultInsertedBeforeStatus ==
    [][\A c \in Ids :
         BecomesTerminal(c) =>
           /\ lastPollWrite = [table |-> "command_results", id |-> c, status |-> "none"]
           /\ command_results[Len(command_results)].command_id = c]_vars

C2_Witness ==
    \E c \in Ids : commands[c].status \in Terminal /\ ResultsOf(c) # {}

\* C3: once a Command is completed or failed, no step changes its status or
\* runs its handler again.
C3_TerminalIsFinal ==
    [][\A c \in Ids :
         commands[c].status \in Terminal =>
           /\ commands'[c].status = commands[c].status
           /\ execCount'[c] = execCount[c]]_vars

\* a later command is being executed while an earlier one is terminal
C3_Witness ==
    \E c \in Ids :
        /\ commands[c].status \in Terminal
        /\ mainPc = "insert_result"
        /\ cur # c

\* C4 as stated: every status change is pending -> running or
\* running -> completed/failed.
C4_StrictStateMachine ==
    [][\A c \in Ids :
         commands'[c].status # commands[c].status =>
           \/ commands[c].status = "pending" /\ commands'[c].status = "running"
           \/ commands[c].status = "running" /\ commands'[c].status \in Terminal]_vars

\* C4 as amended: a status change is pending -> running, running ->
\* completed/failed, or pending -> completed/failed when the best-effort
\* running write failed; never running -> pending, never out of a terminal
\* status.
C4_StateMachine ==
    [][\A c \in Ids :
         commands'[c].status # commands[c].status =>
           \/ commands[c].status = "pending" /\ commands'[c].status = "running"
           \/ commands[c].status = "running" /\ commands'[c].status \in Terminal
           \/ commands[c].status = "pending" /\ commands'[c].status \in Terminal]_vars

\* one command went through to a terminal status and another is about to be
\* terminated from pending
C4_Witness ==
    /\ mainPc = "update_status"
    /\ commands[cur].status = "pending"
    /\ \E c \in Ids : commands[c].status \in Terminal

\* C5: the terminal status written is completed iff exit_code is 0, the
\* CommandResult just inserted carries that exit_code, and a handler that
\* raised gives exit_code 1, output "Error: <message>" and status failed.
C5_ExitCodeDecidesStatus ==
    [][\A c \in Ids :
         BecomesTerminal(c) =>
           /\ c = cur
           /\ (commands'[c].status = "completed") <=> (exit_code = 0)
           /\ (commands'[c].status = "failed") <=> (exit_code # 0)
           /\ command_results[Len(command_results)] =
                [command_id |-> c, output |-> output, exit_code |-> exit_code]
           /\ thrown # "none" =>
                /\ exit_code = 1
                /\ output = "Error: " \o thrown
                /\ commands'[c].status = "failed"]_vars

C5_Witness ==
    \E c \in Ids :
        /\ commands[c].status = "failed"
        /\ \E i \in ResultsOf(c) :
             /\ command_results[i].exit_code = 1
             /\ command_results[i].output = "Error: [Errno 2] No such file or directory"

\* Outputs by which a handler reports that it failed.
FailureOutputs ==
    { "Failed to change directory: ", "Not a directory: ", "Permission denied: ",
      "File not found: ", "No webcam detected", "Failed to capture webcam frame",
      "Screenshot requires mss and Pillow packages. Install with: pip install mss Pillow",
      "Webcam requires opencv-python. Install with: pip install opencv-python" }

\* C6: a CommandResult that reports a handler failure has a non-zero
\* exit_code and its command is never completed.
C6_FailureHasNonZeroExit ==
    \A i \in 1..Len(command_results) :
        command_results[i].output \in FailureOutputs =>
          /\ command_results[i].exit_code # 0
          /\ commands[command_results[i].command_id].status # "completed"

\* C7: while no interrupt has been delivered the main thread stays in the
\* poll loop; after a tick with a failed query, a raising handler or a failed
\* report the next query is issued, and the commands a query returned get
\* their handler run.
C7_PollLoopContinues ==
    /\ [](registered = "ok" /\ ~interrupted =>
            mainPc \in PollPcs \cup {"start_heartbeat"})
    /\ []((mainPc = "sleep" /\ tickFault # "none") =>
            <>(mainPc = "query" \/ interrupted))
    /\ []((mainPc = "for" /\ batch # <<>>) =>
            <>(mainPc = "insert_result" \/ interrupted))

\* the next query is about to be issued after a tick whose report failed,
\* with a command still pending
C7_Witness ==
    /\ mainPc = "query"
    /\ tickFault = "report"
    /\ ~interrupted
    /\ PendingCommands # <<>>

\* this step is a result report of command cur that raised
ReportFails ==
    /\ mainPc \in {"insert_result", "update_status"}
    /\ mainPc' = "for"
    /\ failures' = failures + 1

\* C8: a failed result report leaves the command in status running, and a
\* command that has been executed and reported once is not reported again.
C8_ReportFailureLeavesRunning ==
    /\ [][ReportFails => commands'[cur].status = "running"]_vars
    /\ [][\A c \in Ids : execCount[c] >= 1 => execCount'[c] = execCount[c]]_vars

\* C9: after the offline write no heartbeat update is sent, no poll loop
\* position is taken, no command is executed or reported, and the agent's
\* status stays offline.
C9_NothingRunsAfterOffline ==
    [][offlineWritten =>
         /\ ~(hbPc = "send" /\ hbPc' = "sleep")
         /\ agents' = "offline"
         /\ mainPc' \notin PollPcs
         /\ execCount' = execCount
         /\ command_results' = command_results]_vars

\* C10: when the registration upsert raised, the heartbeat thread was never
\* started, no heartbeat was sent, no query was issued and no command ran.
C10_RegistrationFailureIsFatal ==
    registered = "failed" =>
        /\ mainPc \in {"raised", "terminated"}
        /\ hbPc = "notstarted"
        /\ ~hbSent
        /\ ~polled
        /\ command_results = <<>>
        /\ \A c \in Ids : execCount[c] = 0 /\ commands[c].status = "pending"

\* the process has ended on a failed registration with a command waiting
C10_Witness ==
    /\ registered = "failed"
    /\ mainPc = "terminated"
    /\ commands # <<>>

\* C11: a heartbeat attempt, failed or not, is followed by the sleep of the
\* same iteration and never ends the thread; the loop sleeps only after an
\* attempt and, while running is set, attempts again after each sleep: one
\* attempt per interval, and after any attempt a later one is made unless a
\* shutdown is signalled or the process ends.
C11_HeartbeatSurvivesFailures ==
    /\ [][hbPc = "send" /\ hbPc' # hbPc => hbPc' \in {"sleep", "dead"}]_vars
    /\ [][hbPc' = "sleep" /\ hbPc # "sleep" => hbPc = "send" /\ hbSent']_vars
    /\ [][hbPc = "sleep" /\ hbPc' # hbPc => hbPc' \in {"while", "dead"}]_vars
    /\ [][hbPc = "while" /\ hbPc' # hbPc /\ running =>
            hbPc' \in {"send", "dead"}]_vars
    /\ [](hbPc = "sleep" => <>(hbPc = "send" \/ ~running \/ hbPc = "dead"))

\* every backend call that raised so far was a heartbeat update (register
\* succeeded, no query was issued, no shutdown ran) and the loop is at its
\* next attempt
C11_Witness ==
    /\ registered = "ok"
    /\ ~polled
    /\ mainPc \in {"poll_while", "query"}
    /\ failures = MaxFailures
    /\ running
    /\ hbPc = "send"

\* C12: the commands of a tick are taken in ascending order of creation, one
\* at a time: a command is picked only between two _process_command calls,
\* it is the oldest one left of the tick, its handler runs only for the
\* command picked, and the next query is issued only when none is left.
C12_SequentialInOrder ==
    /\ [](\A i \in 1..Len(batch) : \A j \in 1..Len(batch) :
             i < j => batch[i] < batch[j])
    /\ [](\A i \in 1..Len(batch) : cur < batch[i])
    /\ [][mainPc' = "mark_running" /\ mainPc # "mark_running" =>
            /\ mainPc = "for"
            /\ cur = 0
            /\ cur' = Head(batch)
            /\ batch' = Tail(batch)]_vars
    /\ [][\A c \in Ids : execCount'[c] # execCount[c] =>
            /\ c = cur
            /\ mainPc = "route"
            /\ execCount'[c] = execCount[c] + 1
            /\ \A d \in Ids \ {c} : execCount'[d] = execCount[d]]_vars
    /\ [][mainPc' = "query" /\ mainPc # "query" => batch = <<>> /\ cur = 0]_vars

\* the second command of a tick is at its handler after the report of the
\* first one has ended (with a failure) in the same tick
C12_Witness ==
    /\ mainPc = "route"
    /\ cur = 2
    /\ batch = <<>>
    /\ tickFault = "report"
    /\ execCount[1] >= 1

\* C13: a shell command that timed out is reported with the timeout message
\* and exit code 1, the terminal status written for it is failed, and the
\* poll loop goes on to the end of the tick and to the next query.
C13_TimeoutIsReportedAndSurvived ==
    /\ [](\A i \in 1..Len(command_results) :
             command_results[i].output = TimeoutMessage =>
               command_results[i].exit_code = 1)
    /\ [][\A c \in Ids :
            BecomesTerminal(c) /\ output = TimeoutMessage =>
              commands'[c].status = "failed"]_vars
    /\ []((mainPc = "insert_result" /\ output = TimeoutMessage) =>
            <>(mainPc = "sleep" \/ interrupted))
    /\ []((mainPc = "insert_result" /\ output = TimeoutMessage) =>
            <>(mainPc = "query" \/ interrupted))

\* the next query is about to be issued after a command timed out and was
\* reported as failed
C13_Witness ==
    /\ mainPc = "query"
    /\ ~interrupted
    /\ \E i \in 1..Len(command_results) :
         /\ command_results[i].output = TimeoutMessage
         /\ command_results[i].exit_code = 1
         /\ commands[command_results[i].command_id].status = "failed"

\* C16: the agents row is written only by register, the heartbeat update and
\* shutdown; a heartbeat step changes no other table; no backend write of the
\* poll loop or of a handler goes to agents.
C16_LoopsWriteDisjointTables ==
    [][/\ agents' # agents =>
            \/ hbPc = "send" /\ hbPc' = "sleep"
            \/ mainPc \in {"register", "offline_write"}
       /\ mainPc \in PollPcs /\ mainPc' # mainPc => agents' = agents
       /\ hbPc = "send" /\ hbPc' # hbPc =>
            /\ commands' = commands
            /\ command_results' = command_results
            /\ lastPollWrite' = lastPollWrite
       /\ lastPollWrite'.table \in
            {"none", "commands", "command_results", "file_listings",
             "storage", "screenshots"}]_vars

\* the heartbeat has written the agent's row and the poll loop is between
\* its two report writes
C16_Witness ==
    /\ hbSent
    /\ agents = "online"
    /\ hbPc = "sleep"
    /\ mainPc = "update_status"
    /\ lastPollWrite.table = "command_results"

\* The triggers of the command table, on the lower-cased stripped text: the
\* exact words, and the prefix forms ls, ls <path>, download <path>,
\* shell <text>, cd <path>.
ExactTriggers ==
    { TRIG_whoami, TRIG_hostname, TRIG_osinfo, TRIG_sysinfo, TRIG_netinfo,
      TRIG_uptime, TRIG_processes, TRIG_drives, TRIG_screenshot, TRIG_webcam }

IsLsForm(l) ==
    \/ l = TRIG_ls
    \/ StartsWith(l, TRIG_ls) /\ l[3] \in Whitespace

IsTrigger(l) ==
    \/ l \in ExactTriggers
    \/ IsLsForm(l)
    \/ StartsWith(l, TRIG_download)
    \/ StartsWith(l, TRIG_shell)
    \/ StartsWith(l, TRIG_cd)

\* C17: a text is routed to the ls handler only when it is ls alone or ls
\* followed by a path, and a text that is no trigger of the table is run
\* unchanged as a shell command.
C17_RoutingFollowsTriggerTable ==
    routed # NotRouted =>
        /\ routed.handler = "ls" => IsLsForm(StrStrip(StrLower(routeText)))
        /\ ~IsTrigger(StrStrip(StrLower(routeText))) =>
              routed = [handler |-> "shell", arg |-> routeText]

\* C14: the working directory changes only in a cd call that reports success,
\* to the directory its path resolves to; a cd to a path that is no directory
\* returns the error string and leaves it unchanged; ls without a path lists
\* the working directory as the last successful cd left it; no other handler
\* call and no heartbeat changes it.
C14_OnlySuccessfulCdChangesCwd ==
    [][/\ cwd' # cwd =>
            /\ fsLast'.handler = "cd"
            /\ fsLast'.output = "Changed directory to: "
            /\ cwd' = Resolve(cwd, fsLast'.path)
            /\ cwd' \in Dirs
       /\ fsLast'.handler = "cd" /\ Resolve(cwd, fsLast'.path) \notin Dirs =>
            /\ cwd' = cwd
            /\ fsLast'.output = "Failed to change directory: "
       /\ fsLast'.handler = "ls" /\ fsLast'.arg = <<>> => fsLast'.path = cwd
       /\ fsLast'.handler \notin {"cd"} => cwd' = cwd]_vars

\* a cd has failed after an earlier cd had moved the process to /a
C14_Witness ==
    /\ fsLast.handler = "cd"
    /\ fsLast.output = "Failed to change directory: "
    /\ cwd = <<"/","a">>

\* C18: a call that answers Not a directory, Permission denied or File not
\* found makes no backend write: table file_listings and the bucket are as
\* they were.
C18_RejectedRequestWritesNothing ==
    [][fsLast'.output \in {"Not a directory: ", "Permission denied: ",
                           "File not found: "} =>
         /\ file_listings' = file_listings
         /\ uploads' = uploads
         /\ fsLast'.wrote = "none"]_vars

\* an ls was rejected for a path that has a snapshot from an earlier listing
C18_Witness ==
    /\ fsLast.handler = "ls"
    /\ fsLast.output = "Not a directory: "
    /\ fsLast.path \in DOMAIN file_listings

\* C19: every row of file_listings has as path the absolute path of the
\* directory whose entries it holds.
C19_ListingKeyedByAbsolutePath ==
    \A k \in DOMAIN file_listings :
        /\ IsAbs(k)
        /\ file_listings[k].listed = k

\* C15: every run on the machine has the agent_id that the first run was
\* given.
C15_IdentityIsStable ==
    firstId # NoId => agent_id = firstId

UpperHex ==
    {"0","1","2","3","4","5","6","7","8","9","A","B","C","D","E","F"}

\* C20: with no identity file, a run whose fingerprint sources are those of
\* the run before it derives the same agent_id, and the id is AGT- followed
\* by 8 upper-case hexadecimal digits.
C20_DerivationIsDeterministic ==
    [][/\ idFile = NoFile
       /\ agent_id # NoId
       /\ ~sourcesChanged
       /\ <<machine_id', mac', hostname'>> = <<machine_id, mac, hostname>>
       => /\ agent_id' = agent_id
          /\ Len(agent_id') = 12
          /\ SubSeq(agent_id', 1, 4) = <<"A","G","T","-">>
          /\ \A i \in 5..12 : agent_id'[i] \in UpperHex]_vars

\* C22: the handler of a command runs at most once over the whole run of the
\* agent.
C22_HandlerRunsAtMostOnce ==
    \A c \in Ids : execCount[c] <= 1

\* the text was routed by one of the prefix tests of the chain
RoutedByPrefix(l) ==
    \/ StartsWith(l, TRIG_ls)
    \/ StartsWith(l, TRIG_download)
    \/ StartsWith(l, TRIG_shell)
    \/ StartsWith(l, TRIG_cd)

\* C23: a text routed to a prefix handler gives the handler the argument
\* that the same text without its surrounding whitespace gives it.
C23_ArgumentIgnoresPadding ==
    routed # NotRouted /\ RoutedByPrefix(StrStrip(StrLower(routeText))) =>
        routed = Dispatch(StrStrip(routeText))

\* the text the statement of C21 gives for a finished child process
C21_Text ==
    LET joined == IF completed.stdout # <<>> /\ completed.stderr # <<>>
                  THEN completed.stdout \o <<"\n">> \o completed.stderr
                  ELSE IF completed.stdout # <<>> THEN completed.stdout
                  ELSE completed.stderr
    IN IF StrStrip(joined) = <<>> THEN NoOutput ELSE StrStrip(joined)

\* C21: for a shell command that finishes in time the reported output is
\* stdout, a newline and stderr when both are non-empty, the non-empty one
\* when only one is, trimmed, "(no output)" when the trimmed text is empty,
\* and the reported exit code is the child's return code unchanged.
C21_ShellReportsOutputAndCode ==
    completed.kind = "finished" =>
        /\ shellResult.output = C21_Text
        /\ shellResult.returncode = completed.returncode

C21_Witness ==
    /\ completed.kind = "finished"
    /\ completed.stdout = <<"o", "\n">>
    /\ completed.stderr = <<"e", " ">>
    /\ completed.returncode = 3
    /\ shellResult = [output |-> <<"o", "\n", "\n", "e">>, returncode |-> 3]

\* C24: every metadata record in screenshots belongs to this agent and
\* points at a blob of the bucket under the agent's prefix, and a capture
\* inserts the record only after its upload completed.
C24_MetadataPointsAtUploadedBlob ==
    /\ \A r \in screenshots :
         /\ r.agent_id = agent_id
         /\ StartsWith(r.storage_path, agent_id \o <<"/">>)
         /\ r.storage_path \in uploads
    /\ mediaLast.writes \in {<<>>, <<"storage">>, <<"storage", "screenshots">>}

C24_Witness ==
    /\ screenshots # {}
    /\ mediaLast.failed = "upload"
    /\ mediaLast.filename \notin uploads
    /\ \A r \in screenshots : r.storage_path # mediaLast.filename

====
